---- MODULE Spec2Model ----
(***************************************************************************)
(* Model of openvasreporting/libs/export.py: the aggregation               *)
(* (_get_collections), the exporters of a vulnerability list that call it, *)
(* the exporters of a host registry with the rankings they consume, the    *)
(* severity classifier and the worksheet names.                            *)
(*                                                                         *)
(* Python values are records with a "class" field, so that isinstance is   *)
(* a test of that field.  CVSS scores are fixed-point, in tenths           *)
(* (95 is 9.5, -10 is the sentinel -1.0).  A Counter is the sequence of    *)
(* its <<key, count>> items in insertion order; a missing key reads 0.     *)
(***************************************************************************)
EXTENDS Integers, Sequences, FiniteSets, TLC

VARIABLES
    vuln_info,   \* the list object the caller owns and passes to the calls
    called,      \* the function called last ("" before any call)
    args,        \* the template and output_file of that call
    before,      \* the items of vuln_info when that call started
    raised,      \* the exception that call raised ("" when it returned)
    ret,         \* what _get_collections returned to that call
    output,      \* the file that call created and the rows it wrote
    resulttree,  \* the host registry the caller owns and passes to the calls
    ranked,      \* what the ranking returned to that call, <<>> if not invoked
    score,       \* the scores handed to the classifier
    classified,  \* the levels the classifier returned for them
    sheets,      \* the positions and names of two vulnerabilities of a report
    sheet_names  \* the worksheet names generated for them

vars == <<vuln_info, called, args, before, raised, ret, output,
          resulttree, ranked, score, classified, sheets, sheet_names>>

----------------------------------------------------------------------------
(* Bounds and sample domains *)

\* longest vulnerability list passed to a call
MaxLen == 3

\* vulnerability names, with Python's str ordering on them
StrRank == [s \in {"A", "B"} |-> IF s = "A" THEN 1 ELSE 2]
Names == DOMAIN StrRank

\* scores in tenths: -1.0 (no CVSS assigned), 2.0, 9.5
CvssValues == {-10, 20, 95}

----------------------------------------------------------------------------
(* Entities of parsed_data, as export.py reads them *)

None == [class |-> "NoneType", value |-> ""]

PyStr(s) == [class |-> "str", value |-> s]

\* an argument that is neither None nor a str
PyInt == [class |-> "int", value |-> ""]

Host(ip, host_name) == [class |-> "Host", ip |-> ip, host_name |-> host_name]

Port(number, protocol) ==
    [class |-> "Port", number |-> number, protocol |-> protocol]

NoPort == [class |-> "NoneType", number |-> 0, protocol |-> ""]

\* cvss_level without the case of the scores below 0
cvss_level_NoSentinel(cvss) ==
    IF cvss >= 90 THEN "critical"
    ELSE IF cvss >= 70 THEN "high"
    ELSE IF cvss >= 40 THEN "medium"
    ELSE IF cvss >= 1 THEN "low"
    ELSE IF cvss = 0 THEN "none"
    ELSE "unknown"

\* cvss_level with the cut points of medium and high exchanged
cvss_level_Swapped(cvss) ==
    IF cvss < 0 THEN "none"
    ELSE IF cvss >= 90 THEN "critical"
    ELSE IF cvss >= 70 THEN "medium"
    ELSE IF cvss >= 40 THEN "high"
    ELSE IF cvss >= 1 THEN "low"
    ELSE "none"

\* the classification of a score: the deployed cut points 0.1, 4.0, 7.0, 9.0
cvss_level(cvss) ==
    IF cvss < 0 THEN "none"
    ELSE IF cvss >= 90 THEN "critical"
    ELSE IF cvss >= 70 THEN "high"
    ELSE IF cvss >= 40 THEN "medium"
    ELSE IF cvss >= 1 THEN "low"
    ELSE "none"

\* Config.levels().values(): the five levels, most severe first
Config_levels == <<"critical", "high", "medium", "low", "none">>

Vulnerability(name, cvss, family, hosts) ==
    [class |-> "Vulnerability", name |-> name, cvss |-> cvss,
     level |-> cvss_level(cvss), family |-> family, hosts |-> hosts]

\* an object with the fields of a Vulnerability that is not one
Lookalike(name, cvss, family, hosts) ==
    [Vulnerability(name, cvss, family, hosts) EXCEPT !.class = "SimpleNamespace"]

----------------------------------------------------------------------------
(* Python built-ins used by export.py *)

\* str.lower() on the spellings of a level
lower(s) ==
    CASE s = "Critical" -> "critical"
      [] s = "High"     -> "high"
      [] s = "Medium"   -> "medium"
      [] s = "Low"      -> "low"
      [] s = "None"     -> "none"
      [] OTHER          -> s

\* the indices 1..n of keys in the order list.sort leaves them: ascending
\* keys (descending with reverse), equal keys in their original order
RECURSIVE SortedIndices(_, _, _)
SortedIndices(keys, reverse, n) ==
    IF n = 0 THEN <<>>
    ELSE LET prev == SortedIndices(keys, reverse, n - 1)
             stays(p) == IF reverse THEN keys[p] >= keys[n]
                                    ELSE keys[p] <= keys[n]
             k == Cardinality({i \in 1..Len(prev) : stays(prev[i])})
         IN  SubSeq(prev, 1, k) \o <<n>> \o SubSeq(prev, k + 1, Len(prev))

\* list.sort(key=..., reverse=...): keys[i] is the key of s[i]
list_sort(s, keys, reverse) ==
    LET idx == SortedIndices(keys, reverse, Len(s))
    IN  [i \in 1..Len(s) |-> s[idx[i]]]

\* Counter()[k]
CounterGet(c, k) ==
    IF \E i \in 1..Len(c) : c[i][1] = k
    THEN c[CHOOSE i \in 1..Len(c) : c[i][1] = k][2]
    ELSE 0

\* Counter()[k] = v
CounterSet(c, k, v) ==
    IF \E i \in 1..Len(c) : c[i][1] = k
    THEN [i \in 1..Len(c) |-> IF c[i][1] = k THEN <<k, v>> ELSE c[i]]
    ELSE Append(c, <<k, v>>)

\* Counter()[k] += 1
CounterInc(c, k) == CounterSet(c, k, CounterGet(c, k) + 1)

\* the keys of a Counter in iteration order
CounterKeys(c) == [i \in 1..Len(c) |-> c[i][1]]

----------------------------------------------------------------------------
(* _get_collections *)

level_choices ==
    [l \in {"critical", "high", "medium", "low", "none"} |->
        CASE l = "critical" -> 0
          [] l = "high"     -> 1
          [] l = "medium"   -> 2
          [] l = "low"      -> 3
          [] l = "none"     -> 4]

\* AddHostIps without the membership test of line 70
RECURSIVE AddHostIps_NoDedup(_, _, _)
AddHostIps_NoDedup(ips, hosts, j) ==
    IF j > Len(hosts) THEN ips
    ELSE AddHostIps_NoDedup(Append(ips, hosts[j][1].ip), hosts, j + 1)

\* AddHostIps collecting <<ip, port number>> instead of the ip
RECURSIVE AddHostIps_PerPort(_, _, _)
AddHostIps_PerPort(ips, hosts, j) ==
    IF j > Len(hosts) THEN ips
    ELSE LET key == <<hosts[j][1].ip, hosts[j][2].number>>
             next == IF \E i \in 1..Len(ips) : ips[i] = key
                     THEN ips
                     ELSE Append(ips, key)
         IN  AddHostIps_PerPort(next, hosts, j + 1)

\* lines 69-71: the inner loop over vuln.hosts from occurrence j on
RECURSIVE AddHostIps(_, _, _)
AddHostIps(ips, hosts, j) ==
    IF j > Len(hosts) THEN ips
    ELSE LET host == hosts[j][1]
             next == IF \E i \in 1..Len(ips) : ips[i] = host.ip
                     THEN ips
                     ELSE Append(ips, host.ip)
         IN  AddHostIps(next, hosts, j + 1)

\* CountVuln counting a vulnerability only "if level_index:", which is
\* false for the index 0 of critical
CountVuln_SkipIndexZero(acc, vuln) ==
    LET level_index == level_choices[lower(vuln.level)]
    IN  [vuln_levels |-> IF level_index # 0
                         THEN CounterInc(acc.vuln_levels, lower(vuln.level))
                         ELSE acc.vuln_levels,
         vuln_hostcount_by_level |->
             [acc.vuln_hostcount_by_level EXCEPT ![level_index] =
                 AddHostIps(@, vuln.hosts, 1)],
         vuln_by_family |-> CounterInc(acc.vuln_by_family, vuln.family)]

\* CountVuln with the increment of vuln_levels inside the loop over
\* vuln.hosts: one count per occurrence
RECURSIVE IncTimes(_, _, _)
IncTimes(c, k, n) == IF n = 0 THEN c ELSE IncTimes(CounterInc(c, k), k, n - 1)

CountVuln_PerOccurrence(acc, vuln) ==
    LET level_index == level_choices[lower(vuln.level)]
    IN  [vuln_levels |-> IncTimes(acc.vuln_levels, lower(vuln.level), Len(vuln.hosts)),
         vuln_hostcount_by_level |->
             [acc.vuln_hostcount_by_level EXCEPT ![level_index] =
                 AddHostIps(@, vuln.hosts, 1)],
         vuln_by_family |-> CounterInc(acc.vuln_by_family, vuln.family)]

\* CountVuln storing 1 in the counters instead of adding 1
CountVuln_Presence(acc, vuln) ==
    LET level_index == level_choices[lower(vuln.level)]
    IN  [vuln_levels |-> CounterSet(acc.vuln_levels, lower(vuln.level), 1),
         vuln_hostcount_by_level |->
             [acc.vuln_hostcount_by_level EXCEPT ![level_index] =
                 AddHostIps(@, vuln.hosts, 1)],
         vuln_by_family |-> CounterSet(acc.vuln_by_family, vuln.family, 1)]

\* lines 65-73: the body of the loop, for one vulnerability
CountVuln(acc, vuln) ==
    LET level_index == level_choices[lower(vuln.level)]
    IN  [vuln_levels |-> CounterInc(acc.vuln_levels, lower(vuln.level)),
         vuln_hostcount_by_level |->
             [acc.vuln_hostcount_by_level EXCEPT ![level_index] =
                 AddHostIps(@, vuln.hosts, 1)],
         vuln_by_family |-> CounterInc(acc.vuln_by_family, vuln.family)]

\* line 64: the loop over the sorted list from vulnerability i on
RECURSIVE CollectLoop(_, _, _)
CollectLoop(sorted, i, acc) ==
    IF i > Len(sorted) THEN acc
    ELSE CollectLoop(sorted, i + 1, CountVuln(acc, sorted[i]))

\* CountHosts taking len() of the list of lists instead of the list of
\* the level
RECURSIVE CountHosts_LenOuter(_, _, _)
CountHosts_LenOuter(counter, lists, i) ==
    IF i > Len(Config_levels) THEN counter
    ELSE CountHosts_LenOuter(
             CounterSet(counter, Config_levels[i], Cardinality(DOMAIN lists)),
             lists, i + 1)

\* lines 76-77: one entry of vuln_host_by_level per level of Config
RECURSIVE CountHosts(_, _, _)
CountHosts(counter, lists, i) ==
    IF i > Len(Config_levels) THEN counter
    ELSE LET level == Config_levels[i]
         IN  CountHosts(
                 CounterSet(counter, level, Len(lists[level_choices[lower(level)]])),
                 lists, i + 1)

\* SortVulnInfo with the two sorts in the other order
SortVulnInfo_CvssFirst(items) ==
    LET by_cvss == list_sort(items, [i \in 1..Len(items) |-> items[i].cvss], TRUE)
    IN  list_sort(by_cvss, [i \in 1..Len(by_cvss) |-> StrRank[by_cvss[i].name]], FALSE)

\* SortVulnInfo sorting by ascending cvss and reversing the list
SortVulnInfo_ThenReverse(items) ==
    LET by_name == list_sort(items, [i \in 1..Len(items) |-> StrRank[items[i].name]], FALSE)
        by_cvss == list_sort(by_name, [i \in 1..Len(by_name) |-> by_name[i].cvss], FALSE)
    IN  [i \in 1..Len(by_cvss) |-> by_cvss[Len(by_cvss) + 1 - i]]

\* SortVulnInfo without the sort by name
SortVulnInfo_CvssOnly(items) ==
    list_sort(items, [i \in 1..Len(items) |-> items[i].cvss], TRUE)

\* lines 55-56: the two in-place sorts, name first and then cvss descending
SortVulnInfo(items) ==
    LET by_name == list_sort(items, [i \in 1..Len(items) |-> StrRank[items[i].name]], FALSE)
    IN  list_sort(by_name, [i \in 1..Len(by_name) |-> by_name[i].cvss], TRUE)

\* _get_collections returning vuln_by_family in most_common() order
_get_collections_MostCommon(items) ==
    LET sorted == SortVulnInfo(items)
        acc == CollectLoop(sorted, 1,
                   [vuln_levels |-> <<>>,
                    vuln_hostcount_by_level |-> [i \in 0..4 |-> <<>>],
                    vuln_by_family |-> <<>>])
        fam == acc.vuln_by_family
    IN  [vuln_info |-> sorted,
         vuln_levels |-> acc.vuln_levels,
         vuln_host_by_level |-> CountHosts(<<>>, acc.vuln_hostcount_by_level, 1),
         vuln_by_family |-> list_sort(fam, [i \in 1..Len(fam) |-> fam[i][2]], TRUE)]

\* the tuple _get_collections returns for a list holding items; vuln_info is
\* the list object it was given, which the sorts have reordered
_get_collections(items) ==
    LET sorted == SortVulnInfo(items)
        acc == CollectLoop(sorted, 1,
                   [vuln_levels |-> <<>>,
                    vuln_hostcount_by_level |-> [i \in 0..4 |-> <<>>],
                    vuln_by_family |-> <<>>])
    IN  [vuln_info |-> sorted,
         vuln_levels |-> acc.vuln_levels,
         vuln_host_by_level |-> CountHosts(<<>>, acc.vuln_hostcount_by_level, 1),
         vuln_by_family |-> acc.vuln_by_family]

----------------------------------------------------------------------------
(* Sample inputs *)

host1 == Host("10.0.0.1", "alpha")

host2 == Host("10.0.0.2", "")

\* a family with the occurrences reported in it: none, one host on two
\* ports, two hosts of which one has no port and one the port number 0
Findings ==
    { <<"General", <<>> >>,
      <<"General", << <<host1, Port(80, "tcp")>>, <<host1, Port(443, "tcp")>> >> >>,
      <<"Web", << <<host2, NoPort>>, <<host1, Port(0, "general")>> >> >> }

Vulnerabilities ==
    { Vulnerability(n, c, f[1], f[2]) : n \in Names, c \in CvssValues, f \in Findings }

\* the sequences over S of length at most n
SeqsUpTo(S, n) == UNION { [1..k -> S] : k \in 0..n }

PyList(items) == [class |-> "list", items |-> items]

PyTuple(items) == [class |-> "tuple", items |-> items]

----------------------------------------------------------------------------
(* The state of one call *)

NoOutput == [created |-> FALSE, rows |-> <<>>]

NoArgs == [template |-> None, output_file |-> None]

\* the host registry: its <<key, value>> items in iteration order
ResultTree(entries) == [class |-> "ResultTree", entries |-> entries]

\* no call made yet, nothing classified
Idle ==
    /\ called = ""
    /\ args = NoArgs
    /\ before = <<>>
    /\ raised = ""
    /\ ret = <<>>
    /\ output = NoOutput
    /\ ranked = <<>>
    /\ classified = <<>>
    /\ sheet_names = <<>>

\* the state a call leaves when it raises exc before it aggregates
Raises(fn, a, exc) ==
    /\ called' = fn
    /\ args' = a
    /\ before' = vuln_info.items
    /\ raised' = exc
    /\ ret' = <<>>
    /\ output' = NoOutput
    /\ ranked' = <<>>
    /\ UNCHANGED <<vuln_info, resulttree, score, sheets, sheet_names, classified>>

\* the state a call leaves once _get_collections has returned r and the
\* rest of the call has written out, raising exc ("" when it returned)
Aggregated(fn, a, r, out, exc) ==
    /\ called' = fn
    /\ args' = a
    /\ before' = vuln_info.items
    /\ raised' = exc
    /\ ret' = <<r>>
    /\ output' = out
    /\ vuln_info' = [vuln_info EXCEPT !.items = r.vuln_info]
    /\ ranked' = <<>>
    /\ UNCHANGED <<resulttree, score, sheets, sheet_names, classified>>

\* a direct call of _get_collections on a list of vulnerabilities
Aggregate ==
    /\ vuln_info.class = "list"
    /\ Aggregated("_get_collections", NoArgs,
                  _get_collections(vuln_info.items), NoOutput, "")

InitAgg ==
    /\ vuln_info \in { PyList(s) : s \in SeqsUpTo(Vulnerabilities, MaxLen) }
    /\ resulttree = ResultTree(<<>>)
    /\ score = <<>>
    /\ sheets = <<>>
    /\ Idle

NextAgg == Aggregate

SpecAgg == InitAgg /\ [][NextAgg]_vars

----------------------------------------------------------------------------
(* The exporters of a vulnerability list *)

\* CheckElements looking at the first element only
CheckElements_FirstOnly(items, i) ==
    IF i > Len(items) THEN ""
    ELSE IF items[i].class # "Vulnerability" THEN "TypeError"
    ELSE ""

\* the for loop of the argument check, from element i on: the TypeError of
\* the first element that is not a Vulnerability
RECURSIVE CheckElements(_, _)
CheckElements(items, i) ==
    IF i > Len(items) THEN ""
    ELSE IF items[i].class # "Vulnerability" THEN "TypeError"
    ELSE CheckElements(items, i + 1)

\* the check of the collection argument
CheckVulnInfo(v) ==
    IF v.class # "list" THEN "TypeError" ELSE CheckElements(v.items, 1)

\* the check of output_file
CheckOutputFile(output_file) ==
    IF output_file.class # "str" THEN "TypeError"
    ELSE IF output_file.value = "" THEN "ValueError"
    ELSE ""

\* the template check of the exporters without template support
CheckNoTemplate(template) ==
    IF template # None THEN "NotImplementedError" ELSE ""

\* the template check of the Word exporters
CheckWordTemplate(template) ==
    IF template # None /\ template.class # "str" THEN "TypeError" ELSE ""

\* the first exception of a sequence of checks, "" when all pass
RECURSIVE FirstError(_)
FirstError(errors) ==
    IF errors = <<>> THEN ""
    ELSE IF Head(errors) # "" THEN Head(errors)
    ELSE FirstError(Tail(errors))

\* the rows of the summary table, one per level of Config from level i on
RECURSIVE SummaryRows(_, _, _)
SummaryRows(vuln_levels, vuln_host_by_level, i) ==
    IF i > Len(Config_levels) THEN <<>>
    ELSE LET level == Config_levels[i]
         IN  << <<"level", level, CounterGet(vuln_levels, level),
                  CounterGet(vuln_host_by_level, level)>> >>
             \o SummaryRows(vuln_levels, vuln_host_by_level, i + 1)

\* the rows of the family table, in the iteration order of the Counter
FamilyRows(vuln_by_family) ==
    [i \in 1..Len(vuln_by_family) |->
        <<"family", vuln_by_family[i][1], vuln_by_family[i][2]>>]

\* lines 359-375: the cells of one occurrence in a vulnerability sheet
ExcelHostRow(vuln, host, port) ==
    <<"host", vuln.name, host.ip,
      IF host.host_name # "" THEN host.host_name ELSE "-",
      IF port.class # "NoneType"
      THEN (IF port.number = 0 THEN "" ELSE ToString(port.number))
      ELSE "No port info">>

\* lines 677-687: the cells of one occurrence in a table of the document
WordHostRow(vuln, host, port) ==
    <<"host", vuln.name, host.ip,
      IF host.host_name # "" THEN host.host_name ELSE "-",
      IF port.class # "NoneType"
      THEN (IF port.number = 0 THEN "-" ELSE ToString(port.number))
      ELSE "No port info">>

\* the occurrence rows of one vulnerability, row(vuln, host, port) each
ExcelHostRows(vuln) ==
    [j \in 1..Len(vuln.hosts) |->
        ExcelHostRow(vuln, vuln.hosts[j][1], vuln.hosts[j][2])]

WordHostRows(vuln) ==
    [j \in 1..Len(vuln.hosts) |->
        WordHostRow(vuln, vuln.hosts[j][1], vuln.hosts[j][2])]

\* lines 278-375: the sheet and the TOC row of each vulnerability from i on
RECURSIVE ExcelVulnSheets(_, _)
ExcelVulnSheets(sorted, i) ==
    IF i > Len(sorted) THEN <<>>
    ELSE << <<"toc", i + 3, sorted[i].name, sorted[i].cvss, sorted[i].level>> >>
         \o ExcelHostRows(sorted[i]) \o ExcelVulnSheets(sorted, i + 1)

\* lines 578-687: the pages of the vulnerabilities from i on; a level
\* heading is added when the level differs from cur_level
RECURSIVE WordVulnPages(_, _, _)
WordVulnPages(sorted, i, cur_level) ==
    IF i > Len(sorted) THEN <<>>
    ELSE LET vuln == sorted[i]
             level == lower(vuln.level)
             heading == IF level # cur_level
                        THEN << <<"heading", level>> >>
                        ELSE << <<"page_break">> >>
         IN  heading \o << <<"finding", level, vuln.name>> >>
             \o WordHostRows(vuln) \o WordVulnPages(sorted, i + 1, level)

\* lines 735-756: the rows written from occurrence j of vulnerability i on,
\* until port.number is read from an occurrence without port
RECURSIVE CsvVulnRows(_, _, _, _)
CsvVulnRows(sorted, i, j, rows) ==
    IF i > Len(sorted) THEN [rows |-> rows, raised |-> ""]
    ELSE IF j > Len(sorted[i].hosts) THEN CsvVulnRows(sorted, i + 1, 1, rows)
    ELSE LET vuln == sorted[i]
             host == vuln.hosts[j][1]
             port == vuln.hosts[j][2]
         IN  IF port.class = "NoneType"
             THEN [rows |-> rows, raised |-> "AttributeError"]
             ELSE CsvVulnRows(sorted, i, j + 1,
                      Append(rows, <<"row", host.host_name, host.ip,
                                     ToString(port.number), port.protocol,
                                     vuln.name, vuln.cvss, vuln.level,
                                     vuln.family>>))

export_to_excel_by_vuln(template, output_file) ==
    LET a == [template |-> template, output_file |-> output_file]
        err == FirstError(<<CheckVulnInfo(vuln_info), CheckOutputFile(output_file)>>)
        r == _get_collections(vuln_info.items)
        rows == SummaryRows(r.vuln_levels, r.vuln_host_by_level, 1)
                \o FamilyRows(r.vuln_by_family)
                \o ExcelVulnSheets(r.vuln_info, 1)
    IN  IF err # "" THEN Raises("export_to_excel_by_vuln", a, err)
        ELSE Aggregated("export_to_excel_by_vuln", a, r,
                        [created |-> TRUE, rows |-> rows], "")

export_to_word_by_vuln(template, output_file) ==
    LET a == [template |-> template, output_file |-> output_file]
        err == FirstError(<<CheckVulnInfo(vuln_info), CheckOutputFile(output_file),
                            CheckWordTemplate(template)>>)
        r == _get_collections(vuln_info.items)
        rows == SummaryRows(r.vuln_levels, r.vuln_host_by_level, 1)
                \o WordVulnPages(r.vuln_info, 1, "")
    IN  IF err # "" THEN Raises("export_to_word_by_vuln", a, err)
        ELSE Aggregated("export_to_word_by_vuln", a, r,
                        [created |-> TRUE, rows |-> rows], "")

\* export_to_csv_by_vuln refusing the template after it has written the file
export_to_csv_by_vuln_TemplateLast(template, output_file) ==
    LET a == [template |-> template, output_file |-> output_file]
        err == FirstError(<<CheckVulnInfo(vuln_info), CheckOutputFile(output_file)>>)
        r == _get_collections(vuln_info.items)
        written == CsvVulnRows(r.vuln_info, 1, 1, <<>>)
    IN  IF err # "" THEN Raises("export_to_csv_by_vuln", a, err)
        ELSE Aggregated("export_to_csv_by_vuln", a, r,
                        [created |-> TRUE, rows |-> written.rows],
                        IF written.raised # "" THEN written.raised
                        ELSE CheckNoTemplate(template))

export_to_csv_by_vuln(template, output_file) ==
    LET a == [template |-> template, output_file |-> output_file]
        err == FirstError(<<CheckVulnInfo(vuln_info), CheckOutputFile(output_file),
                            CheckNoTemplate(template)>>)
        r == _get_collections(vuln_info.items)
        written == CsvVulnRows(r.vuln_info, 1, 1, <<>>)
    IN  IF err # "" THEN Raises("export_to_csv_by_vuln", a, err)
        ELSE Aggregated("export_to_csv_by_vuln", a, r,
                        [created |-> TRUE, rows |-> written.rows], written.raised)

export_summary_to_csv(template, output_file) ==
    LET a == [template |-> template, output_file |-> output_file]
        err == FirstError(<<CheckVulnInfo(vuln_info), CheckOutputFile(output_file),
                            CheckNoTemplate(template)>>)
        r == _get_collections(vuln_info.items)
    IN  IF err # "" THEN Raises("export_summary_to_csv", a, err)
        ELSE Aggregated("export_summary_to_csv", a, r,
                        [created |-> TRUE,
                         rows |-> SummaryRows(r.vuln_levels, r.vuln_host_by_level, 1)],
                        "")

----------------------------------------------------------------------------
(* The host registry of parsed_data, as export.py reads it *)

\* higher_cvss of a host without vulnerability: below every score
NoHigherCvss == -20

\* the host addresses, in Python's str ordering
Addresses ==
    <<"10.0.0.1", "10.0.0.2", "10.0.0.3", "10.0.0.4", "10.0.0.5", "10.0.0.6",
      "10.0.0.7", "10.0.0.8", "10.0.0.9", "10.0.1.1", "10.0.1.2">>

\* Python's str ordering on the host addresses
IpRank ==
    [ip \in {Addresses[n] : n \in 1..Len(Addresses)} |->
        CHOOSE n \in 1..Len(Addresses) : Addresses[n] = ip]

\* a new Host whose higher_cvss is the score 0.0
RegistryHost_ZeroCvss(ip, host_name) ==
    [class |-> "Host", ip |-> ip, host_name |-> host_name,
     vuln_list |-> <<>>,
     nv |-> [l \in DOMAIN level_choices |-> 0],
     higher_cvss |-> 0]

\* a Host as the registry holds it, before any vulnerability is added
RegistryHost(ip, host_name) ==
    [class |-> "Host", ip |-> ip, host_name |-> host_name,
     vuln_list |-> <<>>,
     nv |-> [l \in DOMAIN level_choices |-> 0],
     higher_cvss |-> NoHigherCvss]

\* addvulnerability leaving nv as it was for the vulnerabilities of level
\* none
addvulnerability_SkipNone(host, vuln) ==
    [host EXCEPT !.vuln_list = Append(@, vuln),
                 !.nv = IF lower(vuln.level) = "none" THEN @
                        ELSE [@ EXCEPT ![lower(vuln.level)] = @ + 1],
                 !.higher_cvss = IF vuln.cvss > @ THEN vuln.cvss ELSE @]

\* Host.addvulnerability: the vulnerability joins vuln_list and the caches
\* nv and higher_cvss follow
addvulnerability(host, vuln) ==
    [host EXCEPT !.vuln_list = Append(@, vuln),
                 !.nv[lower(vuln.level)] = @ + 1,
                 !.higher_cvss = IF vuln.cvss > @ THEN vuln.cvss ELSE @]

\* Host.nv_total()
nv_total(host) ==
    host.nv["critical"] + host.nv["high"] + host.nv["medium"]
        + host.nv["low"] + host.nv["none"]

\* the sum of cvss over the vulnerabilities of vs from i on
RECURSIVE SumCvss(_, _)
SumCvss(vs, i) == IF i > Len(vs) THEN 0 ELSE vs[i].cvss + SumCvss(vs, i + 1)

\* resulttree.keys(), which is also what iterating resulttree yields
keys(rt) == [i \in 1..Len(rt.entries) |-> rt.entries[i][1]]

\* resulttree[key]
GetItem(rt, key) ==
    rt.entries[CHOOSE i \in 1..Len(rt.entries) : rt.entries[i][1] = key][2]

\* len(resulttree)
len(rt) == Len(rt.entries)

\* what a host is ranked by: its address, its higher_cvss, the sum of the
\* cvss of its vulnerabilities, or its count of vulnerabilities of a level
SortKey(host, by) ==
    CASE by = "ip"          -> IpRank[host.ip]
      [] by = "higher_cvss" -> host.higher_cvss
      [] by = "sum"         -> SumCvss(host.vuln_list, 1)
      [] OTHER              -> host.nv[by]

\* ks in the order sorted(ks, key=..., reverse=...) gives
SortKeysBy(rt, ks, by, reverse) ==
    list_sort(ks, [i \in 1..Len(ks) |-> SortKey(GetItem(rt, ks[i]), by)], reverse)

\* sorted_keys_by_rank without the tiebreak on the address
sorted_keys_by_rank_NoIp(rt) ==
    LET by_cvss == SortKeysBy(rt, keys(rt), "higher_cvss", TRUE)
        by_low  == SortKeysBy(rt, by_cvss, "low", TRUE)
        by_med  == SortKeysBy(rt, by_low, "medium", TRUE)
        by_high == SortKeysBy(rt, by_med, "high", TRUE)
    IN  SortKeysBy(rt, by_high, "critical", TRUE)

\* ResultTree.sorted_keys_by_rank: the keys by critical, high, medium and
\* low count descending, then higher_cvss descending, then address ascending
sorted_keys_by_rank(rt) ==
    LET by_ip   == SortKeysBy(rt, keys(rt), "ip", FALSE)
        by_cvss == SortKeysBy(rt, by_ip, "higher_cvss", TRUE)
        by_low  == SortKeysBy(rt, by_cvss, "low", TRUE)
        by_med  == SortKeysBy(rt, by_low, "medium", TRUE)
        by_high == SortKeysBy(rt, by_med, "high", TRUE)
    IN  SortKeysBy(rt, by_high, "critical", TRUE)

\* sortedbysumcvss ordering by ascending sum
sortedbysumcvss_Ascending(rt) ==
    LET by_ip == SortKeysBy(rt, keys(rt), "ip", FALSE)
    IN  SortKeysBy(rt, by_ip, "sum", FALSE)

\* ResultTree.sortedbysumcvss: the keys by descending sum of cvss, then
\* address ascending
sortedbysumcvss(rt) ==
    LET by_ip == SortKeysBy(rt, keys(rt), "ip", FALSE)
    IN  SortKeysBy(rt, by_ip, "sum", TRUE)

----------------------------------------------------------------------------
(* The exporters of a host registry *)

\* the state a call on the registry leaves: rk is what the ranking
\* returned, <<>> when the call did not get to it
HostCall(fn, a, exc, rk, out) ==
    /\ called' = fn
    /\ args' = a
    /\ before' = vuln_info.items
    /\ raised' = exc
    /\ ret' = <<>>
    /\ output' = out
    /\ ranked' = rk
    /\ UNCHANGED <<vuln_info, resulttree, score, sheets, sheet_names, classified>>

\* CheckHostValues looking at the first entry only
CheckHostValues_FirstOnly(rt, ks, i) ==
    IF i > Len(ks) THEN ""
    ELSE IF GetItem(rt, ks[i]).class # "Host" THEN "TypeError"
    ELSE ""

\* lines 789-791, 903-905: the loop over resulttree.keys() from key i on
RECURSIVE CheckHostValues(_, _, _)
CheckHostValues(rt, ks, i) ==
    IF i > Len(ks) THEN ""
    ELSE IF GetItem(rt, ks[i]).class # "Host" THEN "TypeError"
    ELSE CheckHostValues(rt, ks, i + 1)

\* lines 786-791, 900-905: the check of the registry argument
CheckResultTree(rt) ==
    IF rt.class # "ResultTree" THEN "TypeError"
    ELSE CheckHostValues(rt, keys(rt), 1)

\* lines 1213-1215: the loop over what iterating resulttree yields, from
\* element i on
RECURSIVE CheckIterated(_, _)
CheckIterated(xs, i) ==
    IF i > Len(xs) THEN ""
    ELSE IF xs[i].class # "Host" THEN "TypeError"
    ELSE CheckIterated(xs, i + 1)

\* lines 1210-1215: the check of the registry argument of the CSV exporter
CheckResultTreeIterated(rt) ==
    IF rt.class # "ResultTree" THEN "TypeError"
    ELSE CheckIterated(keys(rt), 1)

\* the port column of a vulnerability in a host report, "" with the
\* exception raised when it cannot be built
HostPortCell(vuln) ==
    IF Len(vuln.hosts) = 0 THEN [text |-> "", raised |-> "IndexError"]
    ELSE LET port == vuln.hosts[1][2]
         IN  IF port.class = "NoneType"
             THEN [text |-> "", raised |-> "AttributeError"]
             ELSE [text |-> (IF port.number = 0 THEN "general"
                             ELSE ToString(port.number))
                            \o "/" \o port.protocol,
                   raised |-> ""]

\* the rows of the vulnerabilities of one host from j on, until a port
\* column cannot be built
RECURSIVE HostVulnRows(_, _, _)
HostVulnRows(host, j, rows) ==
    IF j > Len(host.vuln_list) THEN [rows |-> rows, raised |-> ""]
    ELSE LET vuln == host.vuln_list[j]
             cell == HostPortCell(vuln)
         IN  IF cell.raised # "" THEN [rows |-> rows, raised |-> cell.raised]
             ELSE HostVulnRows(host, j + 1,
                      Append(rows, <<"vuln", host.ip, vuln.name, vuln.cvss,
                                     vuln.level, cell.text>>))

\* lines 819-878: the sections of the hosts of the ranking from i on
RECURSIVE WordHostSections(_, _, _, _)
WordHostSections(rt, rk, i, rows) ==
    IF i > Len(rk) THEN [rows |-> rows, raised |-> ""]
    ELSE LET host == GetItem(rt, rk[i])
             written == HostVulnRows(host, 1,
                            Append(rows, <<"summary", i, host.ip, host.host_name>>))
         IN  IF Len(host.vuln_list) = 0
             THEN WordHostSections(rt, rk, i + 1, rows)
             ELSE IF written.raised # "" THEN written
             ELSE WordHostSections(rt, rk, i + 1, written.rows)

\* the most hosts the "Hosts Ranking" sheet lists
RankingSize == 10

\* max_hosts without the cap
max_hosts_Uncapped(rt) == len(rt)

\* lines 1006-1009
max_hosts(rt) == IF len(rt) < RankingSize THEN len(rt) ELSE RankingSize

\* lines 1027-1037: the rows of the "Hosts Ranking" sheet
RankingRows(rt, rk) ==
    [n \in 1..max_hosts(rt) |->
        LET host == GetItem(rt, rk[n])
        IN  <<"rank", n + 3, n, host.host_name, host.ip,
              host.nv["critical"], host.nv["high"], host.nv["medium"],
              host.nv["low"], nv_total(host), host.higher_cvss,
              cvss_level(host.higher_cvss)>>]

\* ExcelHostSheets giving a TOC row and a sheet to the hosts without
\* vulnerability too
RECURSIVE ExcelHostSheets_NoSkip(_, _, _, _)
ExcelHostSheets_NoSkip(rt, rk, i, rows) ==
    IF i > Len(rk) THEN [rows |-> rows, raised |-> ""]
    ELSE LET host == GetItem(rt, rk[i])
             toc == <<"toc", i + 3, i, host.host_name, host.ip,
                      host.nv["critical"], host.nv["high"], host.nv["medium"],
                      host.nv["low"], nv_total(host), host.higher_cvss,
                      cvss_level(host.higher_cvss)>>
             written == HostVulnRows(host, 1, Append(rows, toc))
         IN  IF written.raised # "" THEN written
             ELSE ExcelHostSheets_NoSkip(rt, rk, i + 1, written.rows)

\* lines 1118-1187: the TOC row and the sheet of the hosts of the ranking
\* from i on
RECURSIVE ExcelHostSheets(_, _, _, _)
ExcelHostSheets(rt, rk, i, rows) ==
    IF i > Len(rk) THEN [rows |-> rows, raised |-> ""]
    ELSE LET host == GetItem(rt, rk[i])
             toc == <<"toc", i + 3, i, host.host_name, host.ip,
                      host.nv["critical"], host.nv["high"], host.nv["medium"],
                      host.nv["low"], nv_total(host), host.higher_cvss,
                      cvss_level(host.higher_cvss)>>
             written == HostVulnRows(host, 1, Append(rows, toc))
         IN  IF Len(host.vuln_list) = 0
             THEN ExcelHostSheets(rt, rk, i + 1, rows)
             ELSE IF written.raised # "" THEN written
             ELSE ExcelHostSheets(rt, rk, i + 1, written.rows)

\* lines 1234-1256: the rows of the hosts of the ranking from i on; a
\* Vulnerability has no attribute port, which the first row reads
RECURSIVE CsvHostRows(_, _, _)
CsvHostRows(rt, rk, i) ==
    IF i > Len(rk) THEN [rows |-> <<>>, raised |-> ""]
    ELSE IF Len(GetItem(rt, rk[i]).vuln_list) = 0 THEN CsvHostRows(rt, rk, i + 1)
    ELSE [rows |-> <<>>, raised |-> "AttributeError"]

export_to_word_by_host(template, output_file) ==
    LET a == [template |-> template, output_file |-> output_file]
        err == FirstError(<<CheckResultTree(resulttree), CheckOutputFile(output_file),
                            CheckWordTemplate(template)>>)
        rk == sorted_keys_by_rank(resulttree)
        written == WordHostSections(resulttree, rk, 1, <<>>)
    IN  IF err # "" THEN HostCall("export_to_word_by_host", a, err, <<>>, NoOutput)
        ELSE IF written.raised # ""
        THEN HostCall("export_to_word_by_host", a, written.raised, <<rk>>, NoOutput)
        ELSE HostCall("export_to_word_by_host", a, "", <<rk>>,
                      [created |-> TRUE, rows |-> written.rows])

export_to_excel_by_host(template, output_file) ==
    LET a == [template |-> template, output_file |-> output_file]
        err == FirstError(<<CheckResultTree(resulttree), CheckOutputFile(output_file),
                            CheckNoTemplate(template)>>)
        rk == sorted_keys_by_rank(resulttree)
        summary == RankingRows(resulttree, rk)
                   \o << <<"chart", 4, max_hosts(resulttree) + 3>> >>
        written == ExcelHostSheets(resulttree, rk, 1, summary)
    IN  IF err # "" THEN HostCall("export_to_excel_by_host", a, err, <<>>, NoOutput)
        ELSE IF written.raised # ""
        THEN HostCall("export_to_excel_by_host", a, written.raised, <<rk>>, NoOutput)
        ELSE HostCall("export_to_excel_by_host", a, "", <<rk>>,
                      [created |-> TRUE, rows |-> written.rows])

export_to_csv_by_host(template, output_file) ==
    LET a == [template |-> template, output_file |-> output_file]
        err == FirstError(<<CheckResultTreeIterated(resulttree),
                            CheckOutputFile(output_file), CheckNoTemplate(template)>>)
        rk == sortedbysumcvss(resulttree)
        written == CsvHostRows(resulttree, rk, 1)
    IN  IF err # "" THEN HostCall("export_to_csv_by_host", a, err, <<>>, NoOutput)
        ELSE HostCall("export_to_csv_by_host", a, written.raised, <<rk>>,
                      [created |-> TRUE, rows |-> written.rows])

\* longest list passed to an exporter
MaxItems == 2

\* the arguments a caller may pass for template and output_file
Templates == {None, PyStr("template.docx"), PyInt}

OutputFiles == {PyStr("openvas_report"), PyStr(""), PyInt}

\* what a caller may pass as vuln_info: a list of vulnerabilities and of
\* objects that only look like one, or a tuple instead of a list
Elements == Vulnerabilities \cup {Lookalike("A", 95, "General", <<>>)}

\* the key and the name the registry gives the host of each address
HostKey == [ip \in DOMAIN IpRank |-> PyStr("host " \o ip)]
HostName == [ip \in DOMAIN IpRank |-> "name of " \o ip]

\* a vulnerability found on the host of address ip
HostFinding(ip, cvss) ==
    Vulnerability("A", cvss, "General",
                  << <<Host(ip, HostName[ip]), Port(80, "tcp")>> >>)

\* the entry of the host of address ip with vulnerabilities of the scores
\* cs, added in that order
RECURSIVE HostWith(_, _)
HostWith(ip, cs) ==
    IF Len(cs) = 0 THEN RegistryHost(ip, HostName[ip])
    ELSE addvulnerability(HostWith(ip, SubSeq(cs, 1, Len(cs) - 1)),
                          HostFinding(ip, cs[Len(cs)]))

Entry(ip, cs) == <<HostKey[ip], HostWith(ip, cs)>>

\* the entry of the host of address ip with one vulnerability whose
\* occurrence has no port
EntryNoPort(ip) ==
    <<HostKey[ip],
      addvulnerability(RegistryHost(ip, HostName[ip]),
                       Vulnerability("A", 75, "General",
                                     << <<Host(ip, HostName[ip]), NoPort>> >>))>>

\* a registry of one host more than the ranking sheet lists, iterated from
\* the greatest address down, every second host without vulnerability
LargeRegistry ==
    ResultTree([n \in 1..(RankingSize + 1) |->
                   Entry(Addresses[RankingSize + 2 - n],
                         IF n % 2 = 0 THEN <<>> ELSE <<75>>)])

\* a value of the registry with the attributes of a Host that is no Host
NotAHost ==
    <<PyStr("stray"), [HostWith("10.0.0.3", <<50>>) EXCEPT !.class = "HostLookalike"]>>

\* the registries passed to an exporter: well-formed ones, ones holding a
\* value that is no Host, and a dict in place of the ResultTree
Registries ==
    { ResultTree(<<>>),
      ResultTree(<<Entry("10.0.0.1", <<>>)>>),
      ResultTree(<<Entry("10.0.0.2", <<95, 20>>), Entry("10.0.0.1", <<75>>)>>),
      ResultTree(<<EntryNoPort("10.0.0.1")>>),
      LargeRegistry,
      ResultTree(<<NotAHost, Entry("10.0.0.1", <<95>>)>>),
      ResultTree(<<Entry("10.0.0.1", <<95>>), NotAHost>>),
      [class |-> "dict", entries |-> <<Entry("10.0.0.1", <<95>>)>>] }

\* lists of three vulnerabilities, two of them of one level
Triples ==
    [1..3 -> {Vulnerability("A", 95, "General", <<>>),
              Vulnerability("B", 95, "Web", <<>>),
              Vulnerability("A", 20, "General", <<>>)}]

\* the parsed data is a vulnerability list or a host registry
Init ==
    /\ \/ /\ vuln_info \in { PyList(s) : s \in SeqsUpTo(Elements, MaxItems) }
                            \cup { PyTuple(s) : s \in SeqsUpTo(Vulnerabilities, 1) }
                            \cup { PyList(s) : s \in Triples }
          /\ resulttree = ResultTree(<<>>)
       \/ /\ vuln_info = PyList(<<>>)
          /\ resulttree \in Registries
    /\ score = <<>>
    /\ sheets = <<>>
    /\ Idle

\* one run of the tool exports one report: implemented_exporters() selects
\* the exporter and it is called once on the parsed data
FirstCall == called = ""

Next ==
    \/ /\ FirstCall
       /\ \E template \in Templates, output_file \in OutputFiles :
             export_to_excel_by_vuln(template, output_file)
    \/ /\ FirstCall
       /\ \E template \in Templates, output_file \in OutputFiles :
             export_to_word_by_vuln(template, output_file)
    \/ /\ FirstCall
       /\ \E template \in Templates, output_file \in OutputFiles :
             export_to_csv_by_vuln(template, output_file)
    \/ /\ FirstCall
       /\ \E template \in Templates, output_file \in OutputFiles :
             export_summary_to_csv(template, output_file)
    \/ /\ FirstCall
       /\ \E template \in Templates, output_file \in OutputFiles :
             export_to_word_by_host(template, output_file)
    \/ /\ FirstCall
       /\ \E template \in Templates, output_file \in OutputFiles :
             export_to_excel_by_host(template, output_file)
    \/ /\ FirstCall
       /\ \E template \in Templates, output_file \in OutputFiles :
             export_to_csv_by_host(template, output_file)

Spec == Init /\ [][Next]_vars

----------------------------------------------------------------------------
(* The host registry from its construction to its one report *)

\* most vulnerabilities added to the registry
MaxFindings == 2

\* scores of the vulnerabilities added: none twice, low, medium, high,
\* critical
HostCvss == {-10, 0, 20, 50, 75, 95}

RECURSIVE Findings_total(_, _)
Findings_total(rt, i) ==
    IF i > len(rt) THEN 0
    ELSE Len(rt.entries[i][2].vuln_list) + Findings_total(rt, i + 1)

\* the parser meets a new host
AddHost(ip) ==
    /\ FirstCall
    /\ \A i \in 1..len(resulttree) : resulttree.entries[i][2].ip # ip
    /\ resulttree' = ResultTree(Append(resulttree.entries,
                                       <<HostKey[ip], RegistryHost(ip, HostName[ip])>>))
    /\ UNCHANGED <<vuln_info, called, args, before, raised, ret, output,
                   ranked, score, sheets, sheet_names, classified>>

\* the parser meets a vulnerability of the i-th host
AddVulnerability(i, cvss) ==
    /\ FirstCall
    /\ i \in 1..len(resulttree)
    /\ Findings_total(resulttree, 1) < MaxFindings
    /\ resulttree' =
          ResultTree([resulttree.entries EXCEPT
              ![i] = <<@[1], addvulnerability(@[2], HostFinding(@[2].ip, cvss))>>])
    /\ UNCHANGED <<vuln_info, called, args, before, raised, ret, output,
                   ranked, score, sheets, sheet_names, classified>>

\* resulttree.sorted_keys_by_rank() called on its own
RankBySeverity ==
    /\ FirstCall
    /\ HostCall("sorted_keys_by_rank", NoArgs, "",
                <<sorted_keys_by_rank(resulttree)>>, NoOutput)

\* resulttree.sortedbysumcvss() called on its own
RankBySumCvss ==
    /\ FirstCall
    /\ HostCall("sortedbysumcvss", NoArgs, "",
                <<sortedbysumcvss(resulttree)>>, NoOutput)

InitHost ==
    /\ vuln_info = PyList(<<>>)
    /\ resulttree = ResultTree(<<>>)
    /\ score = <<>>
    /\ sheets = <<>>
    /\ Idle

\* the addresses of the hosts the parser meets
HostIps == {"10.0.0.1", "10.0.0.2", "10.0.0.3"}

NextHost ==
    \/ \E ip \in HostIps : AddHost(ip)
    \/ \E i \in 1..len(resulttree), cvss \in HostCvss : AddVulnerability(i, cvss)
    \/ RankBySeverity
    \/ RankBySumCvss
    \/ FirstCall /\ export_to_word_by_host(None, PyStr("openvas_report"))
    \/ FirstCall /\ export_to_excel_by_host(None, PyStr("openvas_report"))
    \/ FirstCall /\ export_to_csv_by_host(None, PyStr("openvas_report"))

SpecHost == InitHost /\ [][NextHost]_vars

----------------------------------------------------------------------------
(* The severity classifier on its own *)

\* the scores of [-1.0, 10.0], in tenths
Scores == -10..100

\* Config.cvss_level applied to a pair of scores
Classify ==
    /\ classified = <<>>
    /\ classified' = <<cvss_level(score[1]), cvss_level(score[2])>>
    /\ UNCHANGED <<vuln_info, called, args, before, raised, ret, output,
                   resulttree, ranked, score, sheets, sheet_names>>

InitClassify ==
    /\ vuln_info = PyList(<<>>)
    /\ resulttree = ResultTree(<<>>)
    /\ score \in Scores \X Scores
    /\ sheets = <<>>
    /\ Idle

NextClassify == Classify

SpecClassify == InitClassify /\ [][NextClassify]_vars

----------------------------------------------------------------------------
(* The worksheet names of export_to_excel_by_vuln on their own.  A str is *)
(* the sequence of its characters.                                        *)

\* the characters re.sub removes from a name at line 279
Removed == {"[", "]", "\\", "'", "\"", "&", "@", "#", "(", ")", ":", "*", "?", "/"}

Kept(ch) == ch \notin Removed

\* line 279: re.sub(r"[\[\]\\\'\"&@#():*?/]", "", vuln.name)
Strip(name) == SelectSeq(name, Kept)

\* lines 280-281
Shorten(name) ==
    IF Len(name) > 27
    THEN SubSeq(name, 1, 15) \o <<".", ".">> \o SubSeq(name, Len(name) - 9, Len(name))
    ELSE name

HexDigit == <<"0", "1", "2", "3", "4", "5", "6", "7", "8", "9", "A", "B", "C", "D", "E", "F">>

\* "{:X}".format(i)
RECURSIVE Hex(_)
Hex(i) == IF i < 16 THEN <<HexDigit[i + 1]>> ELSE Hex(i \div 16) \o <<HexDigit[(i % 16) + 1]>>

\* s filled with zeros on the left up to width
RECURSIVE ZeroPad(_, _)
ZeroPad(s, width) == IF Len(s) >= width THEN s ELSE ZeroPad(<<"0">> \o s, width)

\* "{:03X}".format(i)
Format03X(i) == ZeroPad(Hex(i), 3)

\* lines 279-282: the name of the worksheet of the i-th vulnerability
SheetName(i, name) == Format03X(i) \o <<"_">> \o Shorten(Strip(name))

\* n times the character ch
Repeat(ch, n) == [k \in 1..n |-> ch]

\* positions in a report: the first, the last of one, two and three
\* hexadecimal digits and the first of three and four
Positions == {1, 15, 16, 255, 256, 4095, 4096}

\* names of 1, 27, 28 and 40 characters, two names that differ in the
\* middle only, and a name of 30 characters of which 27 are kept
SheetSamples ==
    { <<"a">>, Repeat("a", 27), Repeat("a", 28), Repeat("a", 40),
      Repeat("a", 15) \o Repeat("b", 10) \o Repeat("a", 10),
      <<"[", "/", "?">> \o Repeat("c", 27) }

NameSheets ==
    /\ sheet_names = <<>>
    /\ sheet_names' = [n \in 1..Len(sheets) |-> SheetName(sheets[n].i, sheets[n].name)]
    /\ UNCHANGED <<vuln_info, called, args, before, raised, ret, output,
                   resulttree, ranked, score, classified, sheets>>

InitSheets ==
    /\ vuln_info = PyList(<<>>)
    /\ resulttree = ResultTree(<<>>)
    /\ score = <<>>
    /\ sheets \in [1..2 -> [i : Positions, name : SheetSamples]]
    /\ Idle

NextSheets == NameSheets

SpecSheets == InitSheets /\ [][NextSheets]_vars

----------------------------------------------------------------------------
(* What the claims speak of *)

Levels == {"critical", "high", "medium", "low", "none"}

\* the call has run the aggregation
HasAggregated == ret # <<>>

\* the four collections the aggregation returned
sorted_vulns == ret[1].vuln_info
level_counts == ret[1].vuln_levels
affected_host_counts == ret[1].vuln_host_by_level
family_counts == ret[1].vuln_by_family

Occurs(s, x) == Cardinality({i \in 1..Len(s) : s[i] = x})

IsPermutation(a, b) ==
    /\ Len(a) = Len(b)
    /\ \A i \in 1..Len(a) : Occurs(a, a[i]) = Occurs(b, a[i])

RECURSIVE SumCounts(_, _)
SumCounts(c, i) == IF i > Len(c) THEN 0 ELSE c[i][2] + SumCounts(c, i + 1)

\* the occurrences <<i, j>> of the vulnerabilities of level L
OccurrencesAt(items, L) ==
    UNION { { <<i, j>> : j \in 1..Len(items[i].hosts) } :
              i \in { k \in 1..Len(items) : items[k].level = L } }

\* the host IPs of the occurrences of the vulnerabilities of level L
IpsAtLevel(items, L) ==
    { items[p[1]].hosts[p[2]][1].ip : p \in OccurrencesAt(items, L) }

AllIps(items) == UNION { IpsAtLevel(items, L) : L \in Levels }

OccurrencesAtLevel(items, L) == Cardinality(OccurrencesAt(items, L))

\* C1: the aggregation returns a permutation of its input in which every
\* adjacent pair is in descending cvss order, or has equal cvss and
\* ascending (or equal) names
C1_SortedByCvssThenName ==
    HasAggregated =>
        /\ IsPermutation(sorted_vulns, before)
        /\ \A i \in 1..(Len(sorted_vulns) - 1) :
              LET a == sorted_vulns[i]
                  b == sorted_vulns[i + 1]
              IN  \/ a.cvss > b.cvss
                  \/ a.cvss = b.cvss /\ StrRank[a.name] <= StrRank[b.name]

\* an input of three with a tie in cvss whose names are out of order and a
\* pair whose scores are out of order has been aggregated
C1_Witness ==
    /\ HasAggregated
    /\ Len(before) = 3
    /\ \E i, j \in 1..3 : /\ i < j
                          /\ before[i].cvss = before[j].cvss
                          /\ StrRank[before[i].name] > StrRank[before[j].name]
    /\ \E i, j \in 1..3 : i < j /\ before[i].cvss < before[j].cvss

\* C2: the entries of level_counts sum to the length of the input
C2_LevelCountsSumToLen ==
    HasAggregated => SumCounts(level_counts, 1) = Len(before)

\* three vulnerabilities of three different levels have been counted
C2_Witness ==
    /\ HasAggregated
    /\ Len(before) = 3
    /\ Len(level_counts) = 3

\* C3: level_counts[L] is the number of input vulnerabilities of level L,
\* whatever their number of occurrences; level_counts has no other key; the
\* vulnerabilities with cvss -1.0 are among those counted under none
C3_LevelCountsPerVulnerability ==
    HasAggregated =>
        /\ \A L \in Levels :
              CounterGet(level_counts, L)
                  = Cardinality({i \in 1..Len(before) : before[i].level = L})
        /\ \A i \in 1..Len(level_counts) : level_counts[i][1] \in Levels
        /\ CounterGet(level_counts, "none")
              >= Cardinality({i \in 1..Len(before) : before[i].cvss = -10})

\* a vulnerability with no occurrence, one with two occurrences and one with
\* cvss -1.0 have been counted
C3_Witness ==
    /\ HasAggregated
    /\ \E i, j, k \in 1..Len(before) :
          /\ Len(before[i].hosts) = 0
          /\ Len(before[j].hosts) = 2
          /\ before[k].cvss = -10
          /\ before[i].level = before[j].level
    /\ CounterGet(level_counts, "none") >= 1

\* C4: affected_host_counts[L] is the number of distinct host IPs among the
\* occurrences of the vulnerabilities of level L
C4_AffectedHostsDistinctIps ==
    HasAggregated =>
        \A L \in Levels :
            CounterGet(affected_host_counts, L)
                = Cardinality(IpsAtLevel(before, L))

\* one IP occurs at a level in two vulnerabilities and on two ports of one
\* of them, and the level has two affected hosts
C4_Witness ==
    /\ HasAggregated
    /\ \E L \in Levels :
          /\ CounterGet(affected_host_counts, L) = 2
          /\ OccurrencesAtLevel(before, L) >= 4
          /\ \E i \in 1..Len(before) :
                /\ before[i].level = L
                /\ Len(before[i].hosts) = 2
                /\ before[i].hosts[1][1].ip = before[i].hosts[2][1].ip

\* C5: no level has more affected hosts than there are distinct host IPs in
\* the input
C5_AffectedHostsAtMostAllHosts ==
    HasAggregated =>
        \A L \in Levels :
            CounterGet(affected_host_counts, L) <= Cardinality(AllIps(before))

\* a level with fewer affected hosts than the input has hosts, though it has
\* more occurrences than that
C5_Witness ==
    /\ HasAggregated
    /\ \E L \in Levels :
          /\ CounterGet(affected_host_counts, L) = 1
          /\ Cardinality(AllIps(before)) = 2
          /\ OccurrencesAtLevel(before, L) >= 4

\* C6: a call leaves the caller's list with the elements it had, in the
\* order it had them
C6_InputNotMutated ==
    called # "" => vuln_info.items = before

\* the families of s in the order of their first appearance, from element
\* i on, after those of seen
RECURSIVE FirstAppearance(_, _, _)
FirstAppearance(s, i, seen) ==
    IF i > Len(s) THEN seen
    ELSE IF \E k \in 1..Len(seen) : seen[k] = s[i].family
         THEN FirstAppearance(s, i + 1, seen)
         ELSE FirstAppearance(s, i + 1, Append(seen, s[i].family))

\* C7: the keys of family_counts are the families of the input, each with
\* the number of vulnerabilities of that family, and they iterate in the
\* order in which the aggregation first meets them (it walks the sorted
\* sequence)
C7_FamilyCountsInInsertionOrder ==
    HasAggregated =>
        /\ { family_counts[i][1] : i \in 1..Len(family_counts) }
              = { before[k].family : k \in 1..Len(before) }
        /\ \A i \in 1..Len(family_counts) :
              family_counts[i][2]
                  = Cardinality({k \in 1..Len(before) :
                                    before[k].family = family_counts[i][1]})
        /\ CounterKeys(family_counts) = FirstAppearance(sorted_vulns, 1, <<>>)

\* the family met first has fewer vulnerabilities than the one met second,
\* and a vulnerability with two occurrences was counted
C7_Witness ==
    /\ HasAggregated
    /\ Len(family_counts) = 2
    /\ family_counts[1][2] < family_counts[2][2]
    /\ \E k \in 1..Len(before) : Len(before[k].hosts) = 2

\* C8: an aggregation of a list that is the output of the previous
\* aggregation leaves every element at its position
C8_SortIdempotent ==
    [][(HasAggregated /\ vuln_info.items = sorted_vulns /\ ret' # <<>>)
          => ret'[1].vuln_info = sorted_vulns]_vars

\* an output in which two different vulnerabilities share cvss and name has
\* been aggregated again
C8_Witness ==
    /\ HasAggregated
    /\ before = sorted_vulns
    /\ \E i, j \in 1..Len(before) :
          /\ i < j
          /\ before[i] # before[j]
          /\ before[i].cvss = before[j].cvss
          /\ before[i].name = before[j].name

\* C9: the aggregation of an empty list returns, with an empty sorted
\* sequence, 0 for each level in both counters and no family
C9_EmptyInput ==
    (called # "" /\ before = <<>>) =>
        /\ raised = ""
        /\ HasAggregated
        /\ sorted_vulns = <<>>
        /\ \A L \in Levels :
              /\ CounterGet(level_counts, L) = 0
              /\ CounterGet(affected_host_counts, L) = 0
        /\ family_counts = <<>>

\* the empty list has been aggregated
C9_Witness ==
    /\ called = "_get_collections"
    /\ before = <<>>
    /\ HasAggregated

VulnExporters ==
    {"export_to_excel_by_vuln", "export_to_word_by_vuln",
     "export_to_csv_by_vuln", "export_summary_to_csv"}

\* C10: an exporter given something that is not a list, or a list with an
\* element that is not a Vulnerability at any position, raises TypeError,
\* computes no counters and writes nothing
C10_TypeMismatchRejected ==
    ( /\ called \in VulnExporters
      /\ \/ vuln_info.class # "list"
         \/ \E i \in 1..Len(before) : before[i].class # "Vulnerability" )
    => /\ raised = "TypeError"
       /\ ret = <<>>
       /\ output = NoOutput

\* export_summary_to_csv, called with valid template and output_file, has
\* rejected a list whose second element is the first that is not a
\* Vulnerability
C10_Witness ==
    /\ called = "export_summary_to_csv"
    /\ args.template = None
    /\ args.output_file = PyStr("openvas_report")
    /\ vuln_info.class = "list"
    /\ Len(before) = 2
    /\ before[1].class = "Vulnerability"
    /\ before[2].class # "Vulnerability"
    /\ raised = "TypeError"

\* the exporters of a host registry
HostExporters ==
    {"export_to_word_by_host", "export_to_excel_by_host", "export_to_csv_by_host"}

\* C11: a host exporter given something that is not a ResultTree, or a
\* ResultTree with a value that is not a Host at any position, raises
\* TypeError, and the ranking has not been called when it does
C11_RegistryTypeMismatchRejected ==
    ( /\ called \in HostExporters
      /\ \/ resulttree.class # "ResultTree"
         \/ \E i \in 1..len(resulttree) : resulttree.entries[i][2].class # "Host" )
    => /\ raised = "TypeError"
       /\ ranked = <<>>

\* export_to_excel_by_host, called with valid template and output_file, has
\* rejected a registry whose second value is the first that is not a Host
C11_Witness ==
    /\ called = "export_to_excel_by_host"
    /\ args.template = None
    /\ args.output_file = PyStr("openvas_report")
    /\ resulttree.class = "ResultTree"
    /\ len(resulttree) = 2
    /\ resulttree.entries[1][2].class = "Host"
    /\ resulttree.entries[2][2].class # "Host"
    /\ raised = "TypeError"
    /\ ranked = <<>>

\* what the argument checks of the exporters raise
CheckErrors == {"TypeError", "ValueError", "NotImplementedError"}

\* C12: a call that ends in an error of an argument check has sorted
\* nothing, aggregated nothing, ranked nothing and created no output: the
\* list and the registry are as they were before the call
C12_ValidateThenCompute ==
    [][ raised' \in CheckErrors
        => /\ vuln_info' = vuln_info
           /\ resulttree' = resulttree
           /\ ret' = <<>>
           /\ ranked' = <<>>
           /\ output' = NoOutput ]_vars

\* export_to_csv_by_vuln has refused a template, its last check, on a list
\* that sorting would have reordered, and the list is as it was
C12_Witness ==
    /\ called = "export_to_csv_by_vuln"
    /\ raised = "NotImplementedError"
    /\ Len(before) = 2
    /\ before # SortVulnInfo(before)
    /\ vuln_info.items = before
    /\ output = NoOutput

\* the exporters of the formats without templates
NoTemplateExporters ==
    {"export_to_excel_by_vuln", "export_to_excel_by_host", "export_to_csv_by_vuln",
     "export_to_csv_by_host", "export_summary_to_csv"}

\* the arguments of the call other than template pass their checks
OtherArgsValid ==
    /\ args.output_file = PyStr("openvas_report")
    /\ IF called \in HostExporters
       THEN /\ resulttree.class = "ResultTree"
            /\ \A i \in 1..len(resulttree) : resulttree.entries[i][2].class = "Host"
       ELSE /\ vuln_info.class = "list"
            /\ \A i \in 1..Len(before) : before[i].class = "Vulnerability"

\* C19: an exporter of a format without templates, called with a template
\* and otherwise valid arguments, raises NotImplementedError and writes
\* nothing
C19_TemplateRejected ==
    ( /\ called \in NoTemplateExporters
      /\ args.template # None
      /\ OtherArgsValid )
    => /\ raised = "NotImplementedError"
       /\ output = NoOutput

\* the calls that return the ranking by severity
SeverityRanked ==
    {"sorted_keys_by_rank", "export_to_word_by_host", "export_to_excel_by_host"}

\* the host of the registry under key k
HostOf(k) == GetItem(resulttree, k)

\* host a comes strictly before host b in the order of the ranking by
\* severity: more critical, then more high, medium, low, then the higher
\* higher_cvss, then the smaller address
SeverityBefore(a, b) ==
    LET ka == <<a.nv["critical"], a.nv["high"], a.nv["medium"], a.nv["low"],
                a.higher_cvss, 0 - IpRank[a.ip]>>
        kb == <<b.nv["critical"], b.nv["high"], b.nv["medium"], b.nv["low"],
                b.higher_cvss, 0 - IpRank[b.ip]>>
    IN  \E n \in 1..6 : /\ ka[n] > kb[n]
                        /\ \A m \in 1..(n - 1) : ka[m] = kb[m]

\* ks holds every key of the registry once
EveryKeyOnce(ks) ==
    /\ Len(ks) = len(resulttree)
    /\ \A i \in 1..len(resulttree) :
          Cardinality({n \in 1..Len(ks) : ks[n] = resulttree.entries[i][1]}) = 1

\* the registry iterated in the opposite order
Reversed(rt) ==
    [rt EXCEPT !.entries = [i \in 1..Len(@) |-> @[Len(@) + 1 - i]]]

\* C13: the ranking by severity holds every key of the registry once, each
\* host before every host of fewer critical, then high, medium, low
\* vulnerabilities, then lower higher_cvss, then greater address; ranking the
\* same registry iterated in the opposite order gives the same sequence
C13_RankBySeverity ==
    (called \in SeverityRanked /\ ranked # <<>>)
    => /\ EveryKeyOnce(ranked[1])
       /\ \A i, j \in 1..Len(ranked[1]) :
             i < j => SeverityBefore(HostOf(ranked[1][i]), HostOf(ranked[1][j]))
       /\ ranked[1] = sorted_keys_by_rank(Reversed(resulttree))

\* export_to_excel_by_host has ranked three hosts, two of them with
\* vulnerabilities, the same counts and the same higher_cvss, that the
\* registry iterates with the greater address first
C13_Witness ==
    /\ called = "export_to_excel_by_host"
    /\ ranked # <<>>
    /\ len(resulttree) = 3
    /\ \E i, j \in 1..len(resulttree) :
          LET a == resulttree.entries[i][2]
              b == resulttree.entries[j][2]
          IN  /\ i < j
              /\ Len(a.vuln_list) > 0
              /\ a.nv = b.nv
              /\ a.higher_cvss = b.higher_cvss
              /\ IpRank[a.ip] > IpRank[b.ip]

\* C14: in the ranking by severity no host without vulnerabilities comes
\* before a host with vulnerabilities, whatever their levels
C14_EmptyHostsLast ==
    (called \in SeverityRanked /\ ranked # <<>>)
    => \A i, j \in 1..Len(ranked[1]) :
          (i < j /\ Len(HostOf(ranked[1][i]).vuln_list) = 0)
          => Len(HostOf(ranked[1][j]).vuln_list) = 0

\* export_to_word_by_host has ranked a host without vulnerabilities, which
\* the registry iterates first, after a host whose vulnerabilities all have
\* cvss -1.0
C14_Witness ==
    /\ called = "export_to_word_by_host"
    /\ ranked # <<>>
    /\ len(resulttree) >= 2
    /\ Len(resulttree.entries[1][2].vuln_list) = 0
    /\ \E j \in 2..len(resulttree) :
          LET b == resulttree.entries[j][2]
          IN  /\ Len(b.vuln_list) > 0
              /\ \A n \in 1..Len(b.vuln_list) : b.vuln_list[n].cvss = -10
              /\ ranked[1][1] = resulttree.entries[j][1]

\* the calls that return the ranking by cumulative cvss
SumRanked == {"sortedbysumcvss", "export_to_csv_by_host"}

\* C15: the ranking by cumulative cvss holds every key of the registry once,
\* each host before every host of smaller sum of cvss and, among hosts of
\* the same sum, before every host of greater address
C15_RankBySumCvss ==
    (called \in SumRanked /\ ranked # <<>>)
    => /\ EveryKeyOnce(ranked[1])
       /\ \A i, j \in 1..Len(ranked[1]) :
             LET a == HostOf(ranked[1][i])
                 b == HostOf(ranked[1][j])
             IN  i < j =>
                   \/ SumCvss(a.vuln_list, 1) > SumCvss(b.vuln_list, 1)
                   \/ /\ SumCvss(a.vuln_list, 1) = SumCvss(b.vuln_list, 1)
                      /\ IpRank[a.ip] < IpRank[b.ip]

\* sortedbysumcvss has ranked three hosts: two of the same sum, iterated
\* with the greater address first, and before them in the registry a host
\* of smaller sum
C15_Witness ==
    /\ called = "sortedbysumcvss"
    /\ ranked # <<>>
    /\ len(resulttree) = 3
    /\ LET a == resulttree.entries[1][2]
           b == resulttree.entries[2][2]
           c == resulttree.entries[3][2]
       IN  /\ SumCvss(a.vuln_list, 1) < SumCvss(b.vuln_list, 1)
           /\ SumCvss(b.vuln_list, 1) = SumCvss(c.vuln_list, 1)
           /\ IpRank[b.ip] > IpRank[c.ip]

\* the vulnerabilities of vs that the classifier puts at level L
AtLevel(vs, L) == {n \in 1..Len(vs) : cvss_level(vs[n].cvss) = L}

\* the rows of the workbook of export_to_excel_by_host that carry the
\* total of a host
TotalRows == {n \in 1..Len(output.rows) : output.rows[n][1] \in {"rank", "toc"}}

\* C18: for every host of the registry and every level, nv holds the number
\* of vulnerabilities of the host at that level, and the total that
\* export_to_excel_by_host writes for a host is the length of its vuln_list
C18_NvCountsVulnList ==
    /\ \A i \in 1..len(resulttree) :
          LET host == resulttree.entries[i][2]
          IN  /\ \A L \in Levels :
                    host.nv[L] = Cardinality(AtLevel(host.vuln_list, L))
              /\ nv_total(host) = Len(host.vuln_list)
    /\ (called = "export_to_excel_by_host" /\ output.created)
       => \A n \in TotalRows :
             \E i \in 1..len(resulttree) :
                /\ resulttree.entries[i][2].ip = output.rows[n][5]
                /\ output.rows[n][10] = Len(resulttree.entries[i][2].vuln_list)

\* export_to_excel_by_host has written the total of a host of two
\* vulnerabilities, one of them of level none
C18_Witness ==
    /\ called = "export_to_excel_by_host"
    /\ output.created
    /\ \E n \in TotalRows : output.rows[n][10] = 2
    /\ \E i \in 1..len(resulttree) :
          LET host == resulttree.entries[i][2]
          IN  /\ Len(host.vuln_list) = 2
              /\ host.nv["none"] = 1

\* the seven exporters
Exporters == VulnExporters \cup HostExporters

\* the collection of the call is of the type the exporter takes and so is
\* every element of it
CollectionValid ==
    IF called \in HostExporters
    THEN /\ resulttree.class = "ResultTree"
         /\ \A i \in 1..len(resulttree) : resulttree.entries[i][2].class = "Host"
    ELSE /\ vuln_info.class = "list"
         /\ \A i \in 1..Len(before) : before[i].class = "Vulnerability"

\* C21: an exporter called with an output_file that is not a str raises
\* TypeError, with the empty string ValueError, and with an invalid
\* collection TypeError whatever output_file is; it creates no output in
\* any of these cases
C21_OutputFileChecked ==
    called \in Exporters
    => /\ ~CollectionValid => (raised = "TypeError" /\ output = NoOutput)
       /\ (CollectionValid /\ args.output_file.class # "str")
          => (raised = "TypeError" /\ output = NoOutput)
       /\ (CollectionValid /\ args.output_file = PyStr(""))
          => (raised = "ValueError" /\ output = NoOutput)

\* the occurrences of the vulnerabilities of vs from i on, in the order of
\* vs and of each hosts list
RECURSIVE Occurrences(_, _)
Occurrences(vs, i) ==
    IF i > Len(vs) THEN <<>>
    ELSE [j \in 1..Len(vs[i].hosts) |-> <<vs[i], vs[i].hosts[j][1]>>]
         \o Occurrences(vs, i + 1)

\* C22: export_to_csv_by_vuln, once past its checks, writes one row per
\* occurrence, in the order of the sorted vulnerabilities and of the hosts
\* list of each
C22_CsvRowPerOccurrence ==
    (called = "export_to_csv_by_vuln" /\ ret # <<>>)
    => LET occ == Occurrences(sorted_vulns, 1)
       IN  /\ Len(output.rows) = Len(occ)
           /\ \A k \in 1..Len(occ) :
                 /\ output.rows[k][6] = occ[k][1].name
                 /\ output.rows[k][7] = occ[k][1].cvss
                 /\ output.rows[k][3] = occ[k][2].ip

\* C24: a non-empty registry whose values are all Hosts does not make a
\* host exporter raise TypeError when the other arguments are valid
C24_HostRegistryAccepted ==
    ( /\ called \in HostExporters
      /\ len(resulttree) > 0
      /\ CollectionValid
      /\ args.output_file = PyStr("openvas_report")
      /\ args.template \in {None, PyStr("template.docx")} )
    => raised # "TypeError"

\* the exporters that emit occurrences
OccurrenceExporters == Exporters \ {"export_summary_to_csv"}

\* the data of the call holds an occurrence without port
HasAbsentPort ==
    IF called \in HostExporters
    THEN \E i \in 1..len(resulttree) :
            \E n \in 1..Len(resulttree.entries[i][2].vuln_list) :
               LET v == resulttree.entries[i][2].vuln_list[n]
               IN  \E j \in 1..Len(v.hosts) : v.hosts[j][2] = NoPort
    ELSE \E n \in 1..Len(before) :
            \E j \in 1..Len(before[n].hosts) : before[n].hosts[j][2] = NoPort

\* C25: an exporter past its argument checks whose data holds an occurrence
\* without port completes and creates its output
C25_AbsentPortHandled ==
    ( /\ called \in OccurrenceExporters
      /\ raised \notin CheckErrors
      /\ HasAbsentPort )
    => /\ raised = ""
       /\ output.created

IsRankRow(row) == row[1] = "rank"
IsChartRow(row) == row[1] = "chart"
IsTocRow(row) == row[1] = "toc"
IsVulnRow(row) == row[1] = "vuln"

\* the rows of the "Hosts Ranking" sheet in the output, in row order
RankRows == SelectSeq(output.rows, IsRankRow)

\* the chart ranges in the output
ChartRows == SelectSeq(output.rows, IsChartRow)

\* C23: the "Hosts Ranking" sheet of export_to_excel_by_host lists the
\* first min(10, number of hosts) hosts of the ranking by severity, in rank
\* order, numbered from 1 in consecutive rows from row 4, and the chart
\* ranges run from row 4 to the last of these rows
C23_RankingSheetCapped ==
    (called = "export_to_excel_by_host" /\ output.created)
    => LET k == IF len(resulttree) < 10 THEN len(resulttree) ELSE 10
       IN  /\ Len(RankRows) = k
           /\ \A n \in 1..Len(RankRows) :
                 /\ RankRows[n][2] = n + 3
                 /\ RankRows[n][3] = n
                 /\ RankRows[n][5] = HostOf(ranked[1][n]).ip
           /\ ChartRows = << <<"chart", 4, k + 3>> >>

\* export_to_excel_by_host has written the ranking sheet for a registry of
\* eleven hosts: ten rows, the last in row 13
C23_Witness ==
    /\ called = "export_to_excel_by_host"
    /\ output.created
    /\ len(resulttree) = 11
    /\ Len(RankRows) = 10
    /\ RankRows[10][2] = 13

\* the TOC rows of the output, in the order written
TocRows == SelectSeq(output.rows, IsTocRow)

\* the rows of the host sheets of the output
VulnRows == SelectSeq(output.rows, IsVulnRow)

\* the addresses of the hosts of the registry that have a vulnerability
NonEmptyIps ==
    {resulttree.entries[i][2].ip :
        i \in {n \in 1..len(resulttree) : Len(resulttree.entries[n][2].vuln_list) > 0}}

\* C27: export_to_excel_by_host gives a TOC row and a sheet to the hosts
\* with vulnerabilities and to no other; the n-th TOC row is in row n + 3,
\* carries the index n and is of the n-th host of the ranking by severity
C27_TocContiguous ==
    (called = "export_to_excel_by_host" /\ output.created)
    => /\ Len(TocRows) = Cardinality(NonEmptyIps)
       /\ {TocRows[n][5] : n \in 1..Len(TocRows)} = NonEmptyIps
       /\ {VulnRows[n][2] : n \in 1..Len(VulnRows)} = NonEmptyIps
       /\ \A n \in 1..Len(TocRows) :
             /\ TocRows[n][2] = n + 3
             /\ TocRows[n][3] = n
             /\ TocRows[n][5] = HostOf(ranked[1][n]).ip

\* export_to_excel_by_host has written six TOC rows for a registry of
\* eleven hosts of which the second iterated has no vulnerability
C27_Witness ==
    /\ called = "export_to_excel_by_host"
    /\ output.created
    /\ len(resulttree) = 11
    /\ Len(resulttree.entries[2][2].vuln_list) = 0
    /\ Len(TocRows) = 6
    /\ TocRows[6][2] = 9

\* the levels from the least to the most severe
LevelRank ==
    [l \in Levels |->
        CASE l = "none"     -> 0
          [] l = "low"      -> 1
          [] l = "medium"   -> 2
          [] l = "high"     -> 3
          [] l = "critical" -> 4]

\* C16: the classifier maps every score of [-1.0, 10.0] to one of the five
\* levels, and -1.0 to none
C16_ClassifierTotal ==
    classified # <<>> =>
        \A i \in 1..2 :
            /\ classified[i] \in Levels
            /\ score[i] = -10 => classified[i] = "none"

\* the two ends of the range, -1.0 and 10.0, have been classified
C16_Witness ==
    /\ classified # <<>>
    /\ score = <<-10, 100>>

\* C17: of two scores, the higher never has the strictly lower level
C17_ClassifierMonotonic ==
    (classified # <<>> /\ score[1] <= score[2]) =>
        LevelRank[classified[1]] <= LevelRank[classified[2]]

\* two scores on either side of a cut point have been classified
C17_Witness ==
    /\ classified # <<>>
    /\ score = <<69, 70>>
    /\ classified[1] # classified[2]

\* the elements of items at the indices of S, in their order, from i on
RECURSIVE Pick(_, _, _)
Pick(items, S, i) ==
    IF i > Len(items) THEN <<>>
    ELSE (IF i \in S THEN <<items[i]>> ELSE <<>>) \o Pick(items, S, i + 1)

\* C20: for every split of the input in two parts, level_counts and
\* family_counts are the key-wise sums of the counters of the parts; and
\* affected_host_counts[L] is the count obtained from the part of level L
C20_PartialAggregationsMerge ==
    HasAggregated =>
        /\ \A S \in SUBSET (1..Len(before)) :
              LET r1 == _get_collections(Pick(before, S, 1))
                  r2 == _get_collections(Pick(before, (1..Len(before)) \ S, 1))
              IN  /\ \A L \in Levels :
                        CounterGet(level_counts, L)
                            = CounterGet(r1.vuln_levels, L)
                              + CounterGet(r2.vuln_levels, L)
                  /\ \A f \in { before[i].family : i \in 1..Len(before) } :
                        CounterGet(family_counts, f)
                            = CounterGet(r1.vuln_by_family, f)
                              + CounterGet(r2.vuln_by_family, f)
                  /\ Len(family_counts)
                        = Cardinality({ r1.vuln_by_family[i][1] : i \in 1..Len(r1.vuln_by_family) }
                                      \cup { r2.vuln_by_family[i][1] : i \in 1..Len(r2.vuln_by_family) })
        /\ \A L \in Levels :
              LET part == Pick(before, { i \in 1..Len(before) : before[i].level = L }, 1)
              IN  CounterGet(affected_host_counts, L)
                      = CounterGet(_get_collections(part).vuln_host_by_level, L)

\* three vulnerabilities, two of one level and of one family, with a host
\* that is affected at two levels, have been aggregated
C20_Witness ==
    /\ HasAggregated
    /\ Len(before) = 3
    /\ \E L \in Levels : CounterGet(level_counts, L) = 2
    /\ \E i \in 1..Len(family_counts) : family_counts[i][2] = 2
    /\ \E L1, L2 \in Levels :
          /\ L1 # L2
          /\ IpsAtLevel(before, L1) \cap IpsAtLevel(before, L2) # {}

IsHeading(row) == row[1] = "heading"
IsFinding(row) == row[1] = "finding"

\* the level headings of the document, in the order written
Headings == SelectSeq(output.rows, IsHeading)

\* the positions in the output of the titles of the vulnerabilities
FindingAt == {k \in 1..Len(output.rows) : IsFinding(output.rows[k])}

\* the position of the title written last before position k, 0 if none
PreviousFinding(k) ==
    IF \E p \in FindingAt : p < k
    THEN CHOOSE p \in FindingAt : p < k /\ \A q \in FindingAt : q < k => q <= p
    ELSE 0

\* C26: in the document of export_to_word_by_vuln the level headings go
\* from the most to the least severe level, none twice, and a vulnerability
\* is preceded by a heading exactly when its level is not that of the
\* vulnerability before it
C26_LevelHeadings ==
    (called = "export_to_word_by_vuln" /\ output.created)
    => /\ \A m, n \in 1..Len(Headings) :
             m < n => LevelRank[Headings[m][2]] > LevelRank[Headings[n][2]]
       /\ \A k \in FindingAt :
             /\ k > 1
             /\ IsHeading(output.rows[k - 1])
                <=> \/ PreviousFinding(k) = 0
                    \/ output.rows[PreviousFinding(k)][2] # output.rows[k][2]
             /\ IsHeading(output.rows[k - 1]) => output.rows[k - 1][2] = output.rows[k][2]

\* export_to_word_by_vuln has written two headings for three
\* vulnerabilities given with the two critical ones apart
C26_Witness ==
    /\ called = "export_to_word_by_vuln"
    /\ output.created
    /\ Len(before) = 3
    /\ before[1].level = "critical"
    /\ before[2].level = "low"
    /\ before[3].level = "critical"
    /\ Len(Headings) = 2

\* the vulnerabilities of items are told apart by cvss and name
DistinctCvssAndName(items) ==
    \A i, j \in 1..Len(items) :
        (items[i].cvss = items[j].cvss /\ items[i].name = items[j].name) => i = j

\* C28: aggregating any permutation of the list gives the same count for
\* every level in level_counts and in affected_host_counts and for every
\* family in family_counts, and the same sorted sequence when no two
\* vulnerabilities have both the cvss and the name in common
C28_OrderIndependent ==
    HasAggregated =>
        \A p \in Permutations(1..Len(before)) :
            LET r == _get_collections([i \in 1..Len(before) |-> before[p[i]]])
            IN  /\ \A L \in Levels :
                      /\ CounterGet(r.vuln_levels, L) = CounterGet(level_counts, L)
                      /\ CounterGet(r.vuln_host_by_level, L)
                             = CounterGet(affected_host_counts, L)
                /\ \A i \in 1..Len(before) :
                      CounterGet(r.vuln_by_family, before[i].family)
                          = CounterGet(family_counts, before[i].family)
                /\ Len(r.vuln_by_family) = Len(family_counts)
                /\ DistinctCvssAndName(before) => r.vuln_info = sorted_vulns

\* three vulnerabilities told apart by cvss and name, of two families and
\* two of them of one cvss, have been aggregated from an order that is not
\* the sorted one
C28_Witness ==
    /\ HasAggregated
    /\ Len(before) = 3
    /\ DistinctCvssAndName(before)
    /\ before # sorted_vulns
    /\ before[1].cvss = before[2].cvss
    /\ Len(family_counts) = 2
    /\ \E i \in 1..3 : Len(before[i].hosts) > 0

\* C29: the worksheet names of two vulnerabilities at different positions
\* of one report differ, and each has at most 31 characters
C29_SheetNames ==
    sheet_names # <<>>
    => /\ sheets[1].i # sheets[2].i => sheet_names[1] # sheet_names[2]
       /\ \A n \in 1..Len(sheet_names) : Len(sheet_names[n]) <= 31

====
